---- MODULE Spec2Model ----
(***************************************************************************)
(* A model of package ccx (src/ccx.go): a tree of cascading contexts with  *)
(* a lifecycle state per node, a process-wide lineage registry, deadline   *)
(* clamping at derivation, and scoped cancel / adjust.                     *)
(*                                                                         *)
(* Nodes are identified by their id (a *Ctx is only ever reached by id or  *)
(* through the pointer WithIntent returned, and ids are unique).  The id   *)
(* "" of "no parent" is 0.  A time.Time is a natural number, the zero Time *)
(* is 0.  An error value is a string, the nil error is "nil".  A Go map is *)
(* a reference: params[n] is the address of the map node n holds (0 for    *)
(* the nil map) and heap[m] is the content of the map at address m.        *)
(***************************************************************************)
EXTENDS Naturals, Sequences, FiniteSets

\* ------------------------------------------------------------------ bounds
MaxNodes == 4       \* nodes ever created (Background and WithIntent calls)
MaxTreeNodes == 3   \* nodes created where every lifecycle call is enabled too
MaxTime == 2        \* the clock runs 0..MaxTime; deadlines are 1..MaxTime
NumThreads == 2     \* threads of the concurrent specification
MaxConcNodes == 2   \* nodes created in the concurrent specification
MaxWaitNodes == 2   \* nodes created in the specification of the wait helpers
MaxList == 2        \* length of the node list handed to WaitAll / WhenAny
MaxDeriveNodes == 3 \* nodes created where WithIntent runs concurrently

Ids == 1..MaxNodes
Times == 0..MaxTime
Threads == 1..NumThreads
\* error values handed to SendCancel and to Abort; Go accepts a nil error too
Reasons == {"e1", "e2"}
AbortReasons == Reasons \cup {"nil"}
Keys == {"k", "k2"}
Vals == {"v1", "v2"}
Absent == "absent"
Scopes == {"ScopeNode", "ScopeSubtree", "ScopeRoot"}
PolicyScopes == {"policy.ScopeNode", "policy.ScopeSubtree", "policy.ScopeRoot"}

VARIABLES
  reg,        \* the registry: the set of ids stored in the sync.Map
  parentID,   \* [id -> id], 0 is ""
  state,      \* [id -> "active" | "done" | "aborted"]
  err,        \* [id -> error]
  doneCh,     \* [id -> "open" | "closed" | "panic"]: panic is close of a closed channel
  children,   \* [id -> sequence of ids]
  cons,       \* [id -> deadline], 0 is the zero Time
  params,     \* [id -> address of intent.Params], 0 is the nil map
  heap,       \* [address -> [Keys -> Vals or Absent]]
  base,       \* [id -> "open" | "Canceled" | "DeadlineExceeded"]: Err() of the embedded context
  now,        \* the clock
  lastOp,     \* the last call made outside the threads, once it has returned (observation only)
  thr,        \* [thread -> the call it is running and where it is in it]
  callerCtx,  \* Err() of the context handed to WaitAll / WhenAny: "open" until it fires
  wcall,      \* the WaitAll / WhenAny call in progress and where it is in it
  waiters,    \* [index in the node list -> position of the goroutine WhenAny started for it]
  anyCh,      \* the buffered channel of WhenAny: the nodes sent and not yet received
  order,      \* the terminal transitions made so far, in time order (observation only)
  mu,         \* [id -> holders of Ctx.mu]: the writer (0 for none) and the set of readers
  lt          \* [thread -> the call it is running, lock by lock]

waitVars == <<callerCtx, wcall, waiters, anyCh, order>>
lockVars == <<mu, lt>>
procVars == <<thr, waitVars, lockVars>>
vars == <<reg, parentID, state, err, doneCh, children, cons, params, heap, base, now, lastOp, procVars>>
nodeVars == <<reg, parentID, children, cons>>
lifeVars == <<state, err, doneCh>>
paramVars == <<params, heap>>

EmptyMap == [k \in Keys |-> Absent]
NoFn == [key |-> "-", val |-> "-"]
Op(op, node, scope, reason, arg, fn) ==
  [op |-> op, node |-> node, scope |-> scope, reason |-> reason, arg |-> arg, fn |-> fn]
Idle == [pc |-> "idle", node |-> 0, reason |-> "-", todo |-> <<>>]
NoHold == [w |-> 0, r |-> {}]
\* snap and got are observation only: the nodes linked below the start node
\* when a SendCancel began, and the values a reader has read so far
LIdle == [op |-> "-", pc |-> "idle", node |-> 0, reason |-> "-", val |-> "-", todo |-> <<>>,
          child |-> 0, ref |-> 0, snap |-> {}, got |-> [k \in Keys |-> "?"]]
\* firedAt is observation only: the loop iteration of WaitAll (1 for WhenAny)
\* during which the caller's context fired while the node waited on (WhenAny:
\* every listed node) was active, 0 when that has not happened
NoCall == [op |-> "-", pc |-> "idle", nodes |-> <<>>, i |-> 0, woke |-> "-",
           node |-> 0, err |-> "nil", firedAt |-> 0]

Init ==
  /\ reg = {}
  /\ parentID = [n \in Ids |-> 0]
  /\ state = [n \in Ids |-> "active"]
  /\ err = [n \in Ids |-> "nil"]
  /\ doneCh = [n \in Ids |-> "open"]
  /\ children = [n \in Ids |-> <<>>]
  /\ cons = [n \in Ids |-> 0]
  /\ params = [n \in Ids |-> 0]
  /\ heap = [m \in Ids |-> EmptyMap]
  /\ base = [n \in Ids |-> "open"]
  /\ now = 0
  /\ lastOp = Op("init", 0, "-", "-", 0, NoFn)
  /\ thr = [t \in Threads |-> Idle]
  /\ callerCtx = "open"
  /\ wcall = NoCall
  /\ waiters = <<>>
  /\ anyCh = <<>>
  /\ order = <<>>
  /\ mu = [n \in Ids |-> NoHold]
  /\ lt = [t \in Threads |-> LIdle]

\* ---------------------------------------------------------------- lineage
newID == Cardinality(reg) + 1

Parent(c) == IF parentID[c] \in reg THEN parentID[c] ELSE 0

\* (mutant) Root that stops at the parent
RootOneStep(c) == IF parentID[c] = 0 THEN c ELSE Parent(c)

RECURSIVE Root(_)
Root(c) == IF parentID[c] = 0 THEN c ELSE Root(Parent(c))

Children(c) == SelectSeq(children[c], LAMBDA id : id \in reg)

\* lineage as the parentID links give it: the ancestors of n, nearest first,
\* the nodes below a, and the root of the tree n is in
RECURSIVE Ancestors(_)
Ancestors(n) == IF parentID[n] = 0 THEN {} ELSE {parentID[n]} \cup Ancestors(parentID[n])
Below(a) == {n \in reg : a \in Ancestors(n)}
SubtreeOf(a) == {a} \cup Below(a)
TopOf(n) == CHOOSE a \in {n} \cup Ancestors(n) : parentID[a] = 0

\* --------------------------------------------------------------- lifecycle
close(ch) == IF ch = "open" THEN "closed" ELSE "panic"

Life == [state |-> state, err |-> err, doneCh |-> doneCh]

FulfillOn(L, c) ==
  IF L.state[c] = "active"
  THEN [L EXCEPT !.state[c] = "done", !.doneCh[c] = close(@)]
  ELSE L

\* (mutant) Abort without the test of c.state
AbortOnNoGuard(L, c, e) ==
  [L EXCEPT !.state[c] = "aborted", !.err[c] = e, !.doneCh[c] = close(@)]

AbortOn(L, c, e) ==
  IF L.state[c] = "active"
  THEN [L EXCEPT !.state[c] = "aborted", !.err[c] = e, !.doneCh[c] = close(@)]
  ELSE L

RECURSIVE abortRecursive(_, _, _)
RECURSIVE abortEach(_, _, _)
\* (mutant) a traversal that does not descend below a terminal node
abortRecursiveStop(L, c, reason) ==
  IF L.state[c] = "active" THEN abortEach(AbortOn(L, c, reason), Children(c), reason) ELSE L

abortRecursive(L, c, reason) ==
  LET L1 == IF L.state[c] = "active" THEN AbortOn(L, c, reason) ELSE L
  IN abortEach(L1, Children(c), reason)
abortEach(L, ids, reason) ==
  IF ids = <<>> THEN L
  ELSE abortEach(abortRecursive(L, Head(ids), reason), Tail(ids), reason)

SetLife(L) == state' = L.state /\ err' = L.err /\ doneCh' = L.doneCh

Fulfill(c) ==
  /\ c \in reg
  /\ SetLife(FulfillOn(Life, c))
  /\ lastOp' = Op("Fulfill", c, "-", "-", 0, NoFn)
  /\ UNCHANGED <<nodeVars, paramVars, base, now, procVars>>

Abort(c, e) ==
  /\ c \in reg
  /\ SetLife(AbortOn(Life, c, e))
  /\ lastOp' = Op("Abort", c, "-", e, 0, NoFn)
  /\ UNCHANGED <<nodeVars, paramVars, base, now, procVars>>

\* (mutant) every scope widened by one: Node as Subtree, Subtree as Root
CancelResultWide(c, scope, reason) ==
  CASE scope = "ScopeNode" -> abortRecursive(Life, c, reason)
    [] scope = "ScopeSubtree" -> abortRecursive(Life, Root(c), reason)
    [] scope = "ScopeRoot" -> abortRecursive(Life, Root(c), reason)

CancelResult(c, scope, reason) ==
  CASE scope = "ScopeNode" -> AbortOn(Life, c, reason)
    [] scope = "ScopeSubtree" -> abortRecursive(Life, c, reason)
    [] scope = "ScopeRoot" -> abortRecursive(Life, Root(c), reason)

SendCancel(c, scope, reason) ==
  /\ c \in reg
  /\ SetLife(CancelResult(c, scope, reason))
  /\ lastOp' = Op("SendCancel", c, scope, reason, 0, NoFn)
  /\ UNCHANGED <<nodeVars, paramVars, base, now, procVars>>

fromPolScope(s) ==
  CASE s = "policy.ScopeRoot" -> "ScopeRoot"
    [] s = "policy.ScopeSubtree" -> "ScopeSubtree"
    [] OTHER -> "ScopeNode"

EnforcerCancel(c, s, reason) ==
  /\ c \in reg
  /\ SetLife(CancelResult(c, fromPolScope(s), reason))
  /\ lastOp' = Op("Enforcer.Cancel", c, fromPolScope(s), reason, 0, NoFn)
  /\ UNCHANGED <<nodeVars, paramVars, base, now, procVars>>

\* ------------------------------------------------------------------ adjust
Par == [params |-> params, heap |-> heap]

\* an AdjustFn that sets one key: func(p map[string]any) { p[key] = val }
Mutators == [key : {"k"}, val : Vals]
ApplyFn(fn, m) == [m EXCEPT ![fn.key] = fn.val]

\* the map a node holds, as a reader sees it (reading the nil map finds no key)
MapOf(P, c) == IF P.params[c] = 0 THEN EmptyMap ELSE P.heap[P.params[c]]
ParamsOf(c) == MapOf(Par, c)

applyAdjust(P, c, fn) ==
  LET P1 == IF P.params[c] = 0
            THEN [params |-> [P.params EXCEPT ![c] = c],
                  heap |-> [P.heap EXCEPT ![c] = EmptyMap]]
            ELSE P
  IN [P1 EXCEPT !.heap[P1.params[c]] = ApplyFn(fn, @)]

RECURSIVE adjustRecursive(_, _, _)
RECURSIVE adjustEach(_, _, _)
adjustRecursive(P, c, fn) == adjustEach(applyAdjust(P, c, fn), Children(c), fn)
adjustEach(P, ids, fn) ==
  IF ids = <<>> THEN P
  ELSE adjustEach(adjustRecursive(P, Head(ids), fn), Tail(ids), fn)

AdjustResult(c, scope, fn) ==
  CASE scope = "ScopeNode" -> applyAdjust(Par, c, fn)
    [] scope = "ScopeSubtree" -> adjustRecursive(Par, c, fn)
    [] scope = "ScopeRoot" -> adjustRecursive(Par, Root(c), fn)

SendAdjust(c, scope, fn) ==
  /\ c \in reg
  /\ LET P == AdjustResult(c, scope, fn)
     IN params' = P.params /\ heap' = P.heap
  /\ lastOp' = Op("SendAdjust", c, scope, "-", 0, fn)
  /\ UNCHANGED <<nodeVars, lifeVars, base, now, procVars>>

\* ----------------------------------------------- the embedded context.Context
\* context.WithCancel / WithDeadline of the standard library: a derived context
\* is cancelled with its parent, at once and with the parent's error.
CtxChildren(c) == {m \in reg : parentID[m] = c}

RECURSIVE cancelCtx(_, _, _)
RECURSIVE cancelCtxEach(_, _, _)
cancelCtx(B, c, why) ==
  IF B[c] # "open" THEN B
  ELSE cancelCtxEach([B EXCEPT ![c] = why], CtxChildren(c), why)
cancelCtxEach(B, S, why) ==
  IF S = {} THEN B
  ELSE LET m == CHOOSE x \in S : TRUE
       IN cancelCtxEach(cancelCtx(B, m, why), S \ {m}, why)

\* the context WithIntent derives for a child with effective deadline d
deriveBase(parent, d) ==
  IF base[parent] # "open" THEN base[parent]
  ELSE IF d # 0 /\ d <= now THEN "DeadlineExceeded"
  ELSE "open"

\* -------------------------------------------------------------- derivation
\* (mutant) a clamp that leaves an unset child deadline unset
clampChildSetOnly(p, c) ==
  IF p # 0 /\ c # 0 /\ c > p THEN p ELSE c

\* (mutant) a clamp with the comparison reversed
clampChildBefore(p, c) ==
  IF p # 0 /\ (c = 0 \/ c < p) THEN p ELSE c

clampChild(p, c) ==
  IF p # 0 /\ (c = 0 \/ c > p) THEN p ELSE c

\* the maps some node holds: what a caller can have got from Intent().Params
HeldMaps == {params[n] : n \in reg} \ {0}

wrap(id, b, ip, c) ==
  /\ reg' = reg \cup {id}
  /\ state' = [state EXCEPT ![id] = "active"]
  /\ doneCh' = [doneCh EXCEPT ![id] = "open"]
  /\ cons' = [cons EXCEPT ![id] = c]
  /\ params' = [params EXCEPT ![id] = ip]
  /\ base' = [base EXCEPT ![id] = b]

\* Background() and TODO(): a root on context.Background()/TODO(), which never fires
Background ==
  /\ newID \in Ids
  /\ wrap(newID, "open", 0, 0)
  /\ lastOp' = Op("Background", newID, "-", "-", 0, NoFn)
  /\ UNCHANGED <<parentID, children, err, heap, now, procVars>>

\* (mutant) a WithIntent that records the root of the tree as the child's parent
WithIntentUnderRoot(parent, ip, c) ==
  /\ parent \in reg
  /\ newID \in Ids
  /\ ip \in {0, newID} \cup HeldMaps
  /\ LET d == clampChild(cons[parent], c)
     IN wrap(newID, deriveBase(parent, d), ip, d)
  /\ parentID' = [parentID EXCEPT ![newID] = Root(parent)]
  /\ children' = [children EXCEPT ![parent] = Append(@, newID)]
  /\ lastOp' = Op("WithIntent", parent, "-", "-", c, NoFn)
  /\ UNCHANGED <<err, heap, now, procVars>>

\* (mutant) a WithIntent whose child starts in the state its parent is in
WithIntentInherit(parent, ip, c) ==
  /\ parent \in reg
  /\ newID \in Ids
  /\ ip \in {0, newID} \cup HeldMaps
  /\ reg' = reg \cup {newID}
  /\ state' = [state EXCEPT ![newID] = state[parent]]
  /\ doneCh' = [doneCh EXCEPT ![newID] = doneCh[parent]]
  /\ cons' = [cons EXCEPT ![newID] = clampChild(cons[parent], c)]
  /\ params' = [params EXCEPT ![newID] = ip]
  /\ base' = [base EXCEPT ![newID] = deriveBase(parent, clampChild(cons[parent], c))]
  /\ parentID' = [parentID EXCEPT ![newID] = parent]
  /\ children' = [children EXCEPT ![parent] = Append(@, newID)]
  /\ lastOp' = Op("WithIntent", parent, "-", "-", c, NoFn)
  /\ UNCHANGED <<err, heap, now, procVars>>

\* ip is the Params of the intent passed: 0 (nil), the address of a map made for
\* this call (newID, empty), or a map some node already holds
WithIntent(parent, ip, c) ==
  /\ parent \in reg
  /\ newID \in Ids
  /\ ip \in {0, newID} \cup HeldMaps
  /\ LET d == clampChild(cons[parent], c)
     IN wrap(newID, deriveBase(parent, d), ip, d)
  /\ parentID' = [parentID EXCEPT ![newID] = parent]
  /\ children' = [children EXCEPT ![parent] = Append(@, newID)]
  /\ lastOp' = Op("WithIntent", parent, "-", "-", c, NoFn)
  /\ UNCHANGED <<err, heap, now, procVars>>

\* (mutant) a release handle that also aborts the node
ReleaseAborts(c) ==
  /\ c \in reg
  /\ parentID[c] # 0
  /\ base' = cancelCtx(base, c, "Canceled")
  /\ SetLife(AbortOn(Life, c, "Canceled"))
  /\ lastOp' = Op("Release", c, "-", "-", 0, NoFn)
  /\ UNCHANGED <<nodeVars, paramVars, now, procVars>>

\* the CancelFunc WithIntent returned for node c
Release(c) ==
  /\ c \in reg
  /\ parentID[c] # 0
  /\ base' = cancelCtx(base, c, "Canceled")
  /\ lastOp' = Op("Release", c, "-", "-", 0, NoFn)
  /\ UNCHANGED <<nodeVars, lifeVars, paramVars, now, procVars>>

\* the timer of a context derived with WithDeadline
DeadlineFire(c) ==
  /\ c \in reg
  /\ cons[c] # 0
  /\ now >= cons[c]
  /\ base[c] = "open"
  /\ base' = cancelCtx(base, c, "DeadlineExceeded")
  /\ lastOp' = Op("timer", c, "-", "-", 0, NoFn)
  /\ UNCHANGED <<nodeVars, lifeVars, paramVars, now, procVars>>

Tick ==
  /\ now < MaxTime
  /\ now' = now + 1
  /\ lastOp' = Op("tick", 0, "-", "-", 0, NoFn)
  /\ UNCHANGED <<nodeVars, lifeVars, paramVars, base, procVars>>

\* ------------------------------------------------------ concurrent calls
\* A thread runs one call at a time; each step is one critical section of the
\* code (the lines between a Lock/RLock and its Unlock), which is atomic with
\* respect to the other critical sections of that node.  pc says which
\* section comes next; todo is the recursion of abortRecursive: the nodes still
\* to visit, the one being visited first.
Goto(t, pc, node, reason, todo) ==
  thr' = [thr EXCEPT ![t] = [pc |-> pc, node |-> node, reason |-> reason, todo |-> todo]]

CallFulfill(t, c) ==
  /\ thr[t].pc = "idle" /\ c \in reg
  /\ Goto(t, "Fulfill", c, "-", <<>>)
  /\ UNCHANGED <<nodeVars, lifeVars, paramVars, base, now, lastOp, waitVars, lockVars>>

CallAbort(t, c, e) ==
  /\ thr[t].pc = "idle" /\ c \in reg
  /\ Goto(t, "Abort", c, e, <<>>)
  /\ UNCHANGED <<nodeVars, lifeVars, paramVars, base, now, lastOp, waitVars, lockVars>>

CallSendCancel(t, c, scope, reason) ==
  /\ thr[t].pc = "idle" /\ c \in reg
  /\ CASE scope = "ScopeNode" -> Goto(t, "Abort", c, reason, <<>>)
       [] scope = "ScopeSubtree" -> Goto(t, "recState", c, reason, <<c>>)
       [] scope = "ScopeRoot" -> Goto(t, "recState", Root(c), reason, <<Root(c)>>)
  /\ UNCHANGED <<nodeVars, lifeVars, paramVars, base, now, lastOp, waitVars, lockVars>>

\* Fulfill: lines 111-116
StepFulfill(t) ==
  /\ thr[t].pc = "Fulfill"
  /\ SetLife(FulfillOn(Life, thr[t].node))
  /\ thr' = [thr EXCEPT ![t] = Idle]
  /\ UNCHANGED <<nodeVars, paramVars, base, now, lastOp, waitVars, lockVars>>

\* (mutant) abortRecursive trusting its own State() test: no second test in the lock
StepAbortUnchecked(t) ==
  /\ thr[t].pc = "Abort"
  /\ IF thr[t].todo = <<>>
     THEN /\ SetLife(AbortOn(Life, thr[t].node, thr[t].reason))
          /\ thr' = [thr EXCEPT ![t] = Idle]
     ELSE /\ SetLife(AbortOnNoGuard(Life, thr[t].node, thr[t].reason))
          /\ thr' = [thr EXCEPT ![t].pc = "recChildren"]
  /\ UNCHANGED <<nodeVars, paramVars, base, now, lastOp, waitVars, lockVars>>

\* Abort: lines 121-127, called directly or from abortRecursive
StepAbort(t) ==
  /\ thr[t].pc = "Abort"
  /\ SetLife(AbortOn(Life, thr[t].node, thr[t].reason))
  /\ IF thr[t].todo = <<>>
     THEN thr' = [thr EXCEPT ![t] = Idle]
     ELSE thr' = [thr EXCEPT ![t].pc = "recChildren"]
  /\ UNCHANGED <<nodeVars, paramVars, base, now, lastOp, waitVars, lockVars>>

\* abortRecursive: line 212, c.State() == "active"
StepRecState(t) ==
  /\ thr[t].pc = "recState"
  /\ LET c == Head(thr[t].todo)
     IN IF state[c] = "active"
        THEN thr' = [thr EXCEPT ![t].pc = "Abort", ![t].node = c]
        ELSE thr' = [thr EXCEPT ![t].pc = "recChildren", ![t].node = c]
  /\ UNCHANGED <<nodeVars, lifeVars, paramVars, base, now, lastOp, waitVars, lockVars>>

\* abortRecursive: line 215, the snapshot c.Children(), then the loop over it
StepRecChildren(t) ==
  /\ thr[t].pc = "recChildren"
  /\ LET rest == Children(Head(thr[t].todo)) \o Tail(thr[t].todo)
     IN IF rest = <<>>
        THEN thr' = [thr EXCEPT ![t] = Idle]
        ELSE thr' = [thr EXCEPT ![t].pc = "recState", ![t].node = Head(rest), ![t].todo = rest]
  /\ UNCHANGED <<nodeVars, lifeVars, paramVars, base, now, lastOp, waitVars, lockVars>>

\* --------------------------------------------------------- specifications
\* lifecycle and scoped cancel, one call at a time
NextCancel ==
  \/ Cardinality(reg) < MaxTreeNodes /\ Background
  \/ Cardinality(reg) < MaxTreeNodes /\ \E p \in Ids : WithIntent(p, 0, 0)
  \/ \E c \in Ids : Fulfill(c)
  \/ \E c \in Ids, e \in AbortReasons : Abort(c, e)
  \/ \E c \in Ids, s \in Scopes, e \in Reasons : SendCancel(c, s, e)

Spec == Init /\ [][NextCancel]_vars

\* cancel decisions applied through the policy enforcer
NextPolicy ==
  \/ Cardinality(reg) < MaxTreeNodes /\ Background
  \/ Cardinality(reg) < MaxTreeNodes /\ \E p \in Ids : WithIntent(p, 0, 0)
  \/ \E c \in Ids : Fulfill(c)
  \/ \E c \in Ids : SendCancel(c, "ScopeRoot", "e1")
  \/ \E c \in Ids, s \in PolicyScopes : EnforcerCancel(c, s, "e2")

SpecPolicy == Init /\ [][NextPolicy]_vars

\* scoped adjust, one call at a time
NextAdjust ==
  \/ Cardinality(reg) < MaxTreeNodes /\ Background
  \/ Cardinality(reg) < MaxTreeNodes /\ \E p \in Ids, ip \in 0..MaxNodes : WithIntent(p, ip, 0)
  \/ \E c \in Ids, s \in Scopes, fn \in Mutators : SendAdjust(c, s, fn)

SpecAdjust == Init /\ [][NextAdjust]_vars

\* derivation with deadlines
NextClamp ==
  \/ Background
  \/ \E p \in Ids, c \in Times : WithIntent(p, 0, c)
  \/ \E c \in Ids : Fulfill(c)

SpecClamp == Init /\ [][NextClamp]_vars

\* the two completion signals of a node: its own state and the embedded context
NextSignal ==
  \/ Cardinality(reg) < MaxTreeNodes /\ Background
  \/ Cardinality(reg) < MaxTreeNodes /\ \E p \in Ids, c \in Times : WithIntent(p, 0, c)
  \/ Tick
  \/ \E c \in Ids : DeadlineFire(c)
  \/ \E c \in Ids : Release(c)
  \/ \E c \in Ids : Fulfill(c)

SpecSignal == Init /\ [][NextSignal]_vars

\* the same, with what the runtime guarantees: the clock advances and a timer
\* whose deadline has passed fires.  No call of the API is ever forced.
SpecSignalLive ==
  SpecSignal /\ WF_vars(Tick) /\ \A c \in Ids : WF_vars(DeadlineFire(c))

\* Fulfill, Abort and SendCancel run by several threads at once
NextConc ==
  \/ Cardinality(reg) < MaxConcNodes /\ Background
  \/ Cardinality(reg) < MaxConcNodes /\ \E p \in Ids : WithIntent(p, 0, 0)
  \/ \E t \in Threads, c \in Ids : CallFulfill(t, c)
  \/ \E t \in Threads, c \in Ids : CallAbort(t, c, "e1")
  \/ \E t \in Threads, c \in Ids, s \in Scopes : CallSendCancel(t, c, s, "e2")
  \/ \E t \in Threads : StepFulfill(t)
  \/ \E t \in Threads : StepAbort(t)
  \/ \E t \in Threads : StepRecState(t)
  \/ \E t \in Threads : StepRecChildren(t)

SpecConc == Init /\ [][NextConc]_vars

\* ----------------------------------------------------------------- claims
Terminal(n) == state[n] # "active"
SameLife(n) == state'[n] = state[n] /\ err'[n] = err[n] /\ doneCh'[n] = doneCh[n]

\* C1: every Fulfill() or Abort(e) call leaves its node terminal, and a call on
\* a node that is already terminal changes neither its state nor its ErrState:
\* after any sequence of such calls the node is as the first call left it.
C1_TerminalIdempotent ==
  [][lastOp'.op \in {"Fulfill", "Abort"} =>
       LET n == lastOp'.node
       IN /\ state'[n] # "active"
          /\ state[n] = "active" /\ lastOp'.op = "Fulfill" => state'[n] = "done" /\ err'[n] = "nil"
          /\ state[n] = "active" /\ lastOp'.op = "Abort" => state'[n] = "aborted" /\ err'[n] = lastOp'.reason
          /\ state[n] # "active" => state'[n] = state[n] /\ err'[n] = err[n]]_vars

\* Abort(e2) has returned on a node that Abort(e1) had aborted
C1_Witness ==
  /\ lastOp.op = "Abort" /\ lastOp.reason = "e2"
  /\ state[lastOp.node] = "aborted" /\ err[lastOp.node] = "e1"

\* C2: under concurrent Fulfill, Abort and SendCancel calls a node's DoneChan is
\* never closed twice, it is closed exactly when state is not "active", and a
\* node that is terminal keeps its state and error: one transition wins.
C2_Consistent ==
  \A n \in reg : doneCh[n] # "panic" /\ (doneCh[n] = "closed" <=> state[n] # "active")
C2_OneTransitionWins ==
  [](C2_Consistent) /\ [][\A n \in reg : state[n] # "active" => SameLife(n)]_vars

\* a thread inside abortRecursive saw the node active and is about to call
\* Abort on it, another thread is about to Fulfill it, and a third call won
C2_Witness ==
  \E t1, t2 \in Threads :
    /\ thr[t1].pc = "Abort" /\ thr[t1].todo # <<>>
    /\ thr[t2].pc = "Fulfill" /\ thr[t2].node = thr[t1].node
    /\ state[thr[t1].node] = "aborted" /\ err[thr[t1].node] = "e1"

\* C3: A.SendCancel(ScopeSubtree, err) leaves every node of A's subtree that was
\* active aborted with err and a closed DoneChan, and every node of the subtree
\* that was terminal as it was.
C3_SubtreeCancel ==
  [][lastOp'.op = "SendCancel" /\ lastOp'.scope = "ScopeSubtree" =>
       \A n \in SubtreeOf(lastOp'.node) :
         IF state[n] = "active"
         THEN state'[n] = "aborted" /\ err'[n] = lastOp'.reason /\ doneCh'[n] = "closed"
         ELSE SameLife(n)]_vars

\* the call has aborted a node that sits below a node that was already done
C3_Witness ==
  /\ lastOp.op = "SendCancel" /\ lastOp.scope = "ScopeSubtree"
  /\ \E b, c \in reg :
       /\ parentID[b] = lastOp.node /\ parentID[c] = b
       /\ state[lastOp.node] = "aborted" /\ err[lastOp.node] = lastOp.reason
       /\ state[b] = "done"
       /\ state[c] = "aborted" /\ err[c] = lastOp.reason /\ doneCh[c] = "closed"

\* C4: SendCancel(ScopeNode) on N changes no other node, and
\* SendCancel(ScopeSubtree) on N changes no node outside N's subtree.
C4_CancelFrame ==
  [][lastOp'.op = "SendCancel" =>
       /\ lastOp'.scope = "ScopeNode" => \A n \in reg \ {lastOp'.node} : SameLife(n)
       /\ lastOp'.scope = "ScopeSubtree" => \A n \in reg \ SubtreeOf(lastOp'.node) : SameLife(n)]_vars

\* a subtree cancel aborted N while N's parent and a sibling of N stay active
C4_Witness ==
  /\ lastOp.op = "SendCancel" /\ lastOp.scope = "ScopeSubtree"
  /\ state[lastOp.node] = "aborted" /\ err[lastOp.node] = lastOp.reason
  /\ parentID[lastOp.node] # 0 /\ state[parentID[lastOp.node]] = "active"
  /\ \E s \in reg \ {lastOp.node} : parentID[s] = parentID[lastOp.node] /\ state[s] = "active"

\* C5: SendCancel(ScopeRoot, r) on N, called directly or through the enforcer,
\* leaves every node of N's tree that was active, the root included, aborted
\* with r and a closed DoneChan.
C5_RootCancel ==
  [][lastOp'.op \in {"SendCancel", "Enforcer.Cancel"} /\ lastOp'.scope = "ScopeRoot" =>
       \A n \in SubtreeOf(TopOf(lastOp'.node)) :
         state[n] = "active" =>
           state'[n] = "aborted" /\ err'[n] = lastOp'.reason /\ doneCh'[n] = "closed"]_vars

\* the enforcer's root cancel on N aborted the root and a branch N is not in
C5_Witness ==
  /\ lastOp.op = "Enforcer.Cancel" /\ lastOp.scope = "ScopeRoot"
  /\ parentID[lastOp.node] # 0
  /\ state[TopOf(lastOp.node)] = "aborted" /\ err[TopOf(lastOp.node)] = lastOp.reason
  /\ \E s \in reg \ {lastOp.node} :
       /\ parentID[s] = parentID[lastOp.node]
       /\ state[s] = "aborted" /\ err[s] = lastOp.reason /\ doneCh[s] = "closed"

\* the nodes a scoped call on a reaches
InScope(a, scope) ==
  CASE scope = "ScopeNode" -> {a}
    [] scope = "ScopeSubtree" -> SubtreeOf(a)
    [] scope = "ScopeRoot" -> SubtreeOf(TopOf(a))

\* C6: A.SendAdjust(scope, fn) with fn setting k to v leaves every node in scope
\* (A alone, A's subtree, or A's whole tree) observing params[k] = v, and the
\* params every node out of scope observes unchanged.
C6_AdjustScope ==
  [][lastOp'.op = "SendAdjust" =>
       LET S == InScope(lastOp'.node, lastOp'.scope)
           fn == lastOp'.fn
       IN /\ \A n \in S : MapOf([params |-> params', heap |-> heap'], n)[fn.key] = fn.val
          /\ \A n \in reg \ S : MapOf([params |-> params', heap |-> heap'], n) = ParamsOf(n)]_vars

\* C7: a node under an ancestor with a deadline D has a deadline that is set
\* and not later than D, and no node's constraints change once it is created.
C7_DeadlineOrder ==
  \A p \in reg : \A n \in Below(p) : cons[p] # 0 => cons[n] # 0 /\ cons[n] <= cons[p]
C7_DeadlineMonotone ==
  [](C7_DeadlineOrder) /\ [][\A n \in reg : cons'[n] = cons[n]]_vars

\* a grandchild derived with no deadline of its own, below a child with an
\* earlier deadline than its parent's
C7_Witness ==
  /\ lastOp.op = "WithIntent" /\ lastOp.arg = 0
  /\ LET g == Cardinality(reg)
         c == parentID[g]
     IN /\ c # 0 /\ parentID[c] # 0
        /\ cons[parentID[c]] # 0 /\ cons[c] < cons[parentID[c]]
        /\ cons[g] = cons[c]

\* C8: the effective deadline of a child derived under a parent with deadline p
\* from a requested deadline c is c when p is unset, p when c is unset or later
\* than p, and c when c is set and not later than p.
C8_ClampRule ==
  [][lastOp'.op = "WithIntent" =>
       LET p == cons[lastOp'.node]
           c == lastOp'.arg
           eff == cons'[Cardinality(reg')]
       IN /\ p = 0 => eff = c
          /\ p # 0 /\ c = 0 => eff = p
          /\ p # 0 /\ c # 0 /\ c > p => eff = p
          /\ p # 0 /\ c # 0 /\ c <= p => eff = c]_vars

\* a request later than the parent's deadline was clamped to it
C8_Witness ==
  /\ lastOp.op = "WithIntent"
  /\ cons[lastOp.node] # 0 /\ lastOp.arg > cons[lastOp.node]
  /\ cons[Cardinality(reg)] = cons[lastOp.node]

\* C9: a node whose embedded context has fired (by its deadline, by the cascade
\* from an ancestor's context, or by the release handle) is terminal or
\* eventually becomes terminal.
C9_FiredLeadsToTerminal ==
  \A n \in Ids : (n \in reg /\ base[n] # "open") ~> (state[n] # "active")

\* C10: calling a release handle changes no node's state, error, DoneChan,
\* params or children list.
C10_ReleaseFrame ==
  [][lastOp'.op = "Release" =>
       /\ \A n \in reg : SameLife(n) /\ params'[n] = params[n] /\ children'[n] = children[n]
       /\ heap' = heap /\ reg' = reg]_vars

\* a release handle was called on an active node with a child: both embedded
\* contexts have fired and both nodes are still active with DoneChan open
C10_Witness ==
  /\ lastOp.op = "Release"
  /\ state[lastOp.node] = "active" /\ doneCh[lastOp.node] = "open"
  /\ base[lastOp.node] = "Canceled"
  /\ \E k \in reg : /\ parentID[k] = lastOp.node
                    /\ base[k] = "Canceled" /\ state[k] = "active" /\ doneCh[k] = "open"

\* ------------------------------------------------------------ wait helpers
\* The goroutines that complete nodes while a wait is in progress.  A select
\* that found no case ready parks the goroutine; the event that wakes it
\* decides the case it takes (woke).  A select that finds cases ready picks
\* one of them.
\* the node lists handed to the helpers: registered nodes, none listed twice
NodeLists ==
  {ns \in UNION {[1..k -> reg] : k \in 0..MaxList} : \A i, j \in DOMAIN ns : ns[i] = ns[j] => i = j}

Note(c, how, e) == IF state[c] = "active" THEN Append(order, [node |-> c, how |-> how, reason |-> e]) ELSE order

WaitedNode == IF wcall.op = "WaitAll" /\ wcall.i \in 1..Len(wcall.nodes) THEN wcall.nodes[wcall.i] ELSE 0

WakeBy(what) == IF wcall.pc = "blocked" /\ wcall.woke = "-" THEN [wcall EXCEPT !.woke = what] ELSE wcall

WorkerFulfill(c) ==
  /\ c \in reg
  /\ SetLife(FulfillOn(Life, c))
  /\ order' = Note(c, "done", "nil")
  /\ wcall' = IF c = WaitedNode /\ state[c] = "active" THEN WakeBy("node") ELSE wcall
  /\ UNCHANGED <<nodeVars, paramVars, base, now, lastOp, thr, lockVars, callerCtx, waiters, anyCh>>

WorkerAbort(c, e) ==
  /\ c \in reg
  /\ SetLife(AbortOn(Life, c, e))
  /\ order' = Note(c, "aborted", e)
  /\ wcall' = IF c = WaitedNode /\ state[c] = "active" THEN WakeBy("node") ELSE wcall
  /\ UNCHANGED <<nodeVars, paramVars, base, now, lastOp, thr, lockVars, callerCtx, waiters, anyCh>>

\* the caller's context fires (its cancel function, or its deadline)
CallerFire(why) ==
  /\ callerCtx = "open"
  /\ callerCtx' = why
  /\ wcall' = [WakeBy("ctx") EXCEPT !.firedAt =
                 IF wcall.pc \notin {"poll", "blocked"} THEN 0
                 ELSE IF wcall.op = "WaitAll"
                      THEN (IF state[wcall.nodes[wcall.i]] = "active" THEN wcall.i ELSE 0)
                      ELSE (IF \A k \in DOMAIN wcall.nodes : state[wcall.nodes[k]] = "active" THEN 1 ELSE 0)]
  /\ UNCHANGED <<nodeVars, lifeVars, paramVars, base, now, lastOp, thr, lockVars, waiters, anyCh, order>>

Returned(cl, n, e) == [cl EXCEPT !.pc = "returned", !.woke = "-", !.node = n, !.err = e]

\* (mutant) a WaitAll that goes on to the next node whatever the error
waitAllNodeIgnoreErr(cl) ==
  IF cl.i = Len(cl.nodes) THEN Returned(cl, 0, "nil")
  ELSE [cl EXCEPT !.pc = "poll", !.woke = "-", !.i = @ + 1]

\* case <-n.DoneChan() of WaitAll
waitAllNode(cl) ==
  LET e == err[cl.nodes[cl.i]]
  IN IF e # "nil" THEN Returned(cl, 0, e)
     ELSE IF cl.i = Len(cl.nodes) THEN Returned(cl, 0, "nil")
     ELSE [cl EXCEPT !.pc = "poll", !.woke = "-", !.i = @ + 1]

\* (mutant) a WaitAll that goes round again when the caller's context is done
WaitAllTakeNoReturn(what) ==
  wcall' = IF what = "node" THEN waitAllNode(wcall) ELSE [wcall EXCEPT !.pc = "poll", !.woke = "-"]

WaitAllTake(what) ==
  wcall' = IF what = "node" THEN waitAllNode(wcall) ELSE Returned(wcall, 0, callerCtx)

StartWaitAll(ns) ==
  /\ wcall.pc = "idle"
  /\ wcall' = IF ns = <<>>
              THEN [NoCall EXCEPT !.op = "WaitAll", !.pc = "returned"]
              ELSE [NoCall EXCEPT !.op = "WaitAll", !.pc = "poll", !.nodes = ns, !.i = 1]
  /\ waiters' = <<>>
  /\ anyCh' = <<>>
  /\ UNCHANGED <<nodeVars, lifeVars, paramVars, base, now, lastOp, thr, lockVars, callerCtx, order>>

WaitAllReady ==
  {w \in {"node"} : doneCh[wcall.nodes[wcall.i]] # "open"} \cup {w \in {"ctx"} : callerCtx # "open"}

WaitAllPoll ==
  /\ wcall.op = "WaitAll"
  /\ wcall.pc = "poll"
  /\ IF WaitAllReady = {}
     THEN wcall' = [wcall EXCEPT !.pc = "blocked"]
     ELSE \E w \in WaitAllReady : WaitAllTake(w)
  /\ UNCHANGED <<nodeVars, lifeVars, paramVars, base, now, lastOp, thr, lockVars, callerCtx, waiters, anyCh, order>>

WaitAllWake ==
  /\ wcall.op = "WaitAll"
  /\ wcall.pc = "blocked"
  /\ wcall.woke # "-"
  /\ WaitAllTake(wcall.woke)
  /\ UNCHANGED <<nodeVars, lifeVars, paramVars, base, now, lastOp, thr, lockVars, callerCtx, waiters, anyCh, order>>

StartWhenAny(ns) ==
  /\ wcall.pc = "idle"
  /\ wcall' = [NoCall EXCEPT !.op = "WhenAny", !.pc = "poll", !.nodes = ns]
  /\ waiters' = [k \in 1..Len(ns) |-> "recv"]
  /\ anyCh' = <<>>
  /\ UNCHANGED <<nodeVars, lifeVars, paramVars, base, now, lastOp, thr, lockVars, callerCtx, order>>

\* go func(n *Ctx) { <-n.DoneChan(); ch <- n }(n)
WaiterRecv(k) ==
  /\ k \in DOMAIN waiters
  /\ waiters[k] = "recv"
  /\ doneCh[wcall.nodes[k]] # "open"
  /\ waiters' = [waiters EXCEPT ![k] = "send"]
  /\ UNCHANGED <<nodeVars, lifeVars, paramVars, base, now, lastOp, thr, lockVars, callerCtx, wcall, anyCh, order>>

WaiterSend(k) ==
  /\ k \in DOMAIN waiters
  /\ waiters[k] = "send"
  /\ waiters' = [waiters EXCEPT ![k] = "sent"]
  /\ anyCh' = Append(anyCh, wcall.nodes[k])
  /\ wcall' = WakeBy("ch")
  /\ UNCHANGED <<nodeVars, lifeVars, paramVars, base, now, lastOp, thr, lockVars, callerCtx, order>>

WhenAnyTake(what) ==
  IF what = "ch"
  THEN /\ wcall' = Returned(wcall, Head(anyCh), err[Head(anyCh)])
       /\ anyCh' = Tail(anyCh)
  ELSE /\ wcall' = Returned(wcall, 0, callerCtx)
       /\ anyCh' = anyCh

WhenAnyReady == {w \in {"ch"} : anyCh # <<>>} \cup {w \in {"ctx"} : callerCtx # "open"}

WhenAnyPoll ==
  /\ wcall.op = "WhenAny"
  /\ wcall.pc = "poll"
  /\ IF WhenAnyReady = {}
     THEN wcall' = [wcall EXCEPT !.pc = "blocked"] /\ anyCh' = anyCh
     ELSE \E w \in WhenAnyReady : WhenAnyTake(w)
  /\ UNCHANGED <<nodeVars, lifeVars, paramVars, base, now, lastOp, thr, lockVars, callerCtx, waiters, order>>

WhenAnyWake ==
  /\ wcall.op = "WhenAny"
  /\ wcall.pc = "blocked"
  /\ wcall.woke # "-"
  /\ WhenAnyTake(wcall.woke)
  /\ UNCHANGED <<nodeVars, lifeVars, paramVars, base, now, lastOp, thr, lockVars, callerCtx, waiters, order>>

NextWait ==
  \/ (reg = {} /\ Background)
  \/ (Cardinality(reg) < MaxWaitNodes /\ WithIntent(1, 0, 0))
  \/ \E c \in Ids : WorkerFulfill(c)
  \/ \E c \in Ids, e \in AbortReasons : WorkerAbort(c, e)
  \/ CallerFire("Canceled")
  \/ \E ns \in NodeLists : StartWaitAll(ns)
  \/ WaitAllPoll
  \/ WaitAllWake
  \/ \E ns \in NodeLists : StartWhenAny(ns)
  \/ \E k \in 1..MaxList : WaiterRecv(k)
  \/ \E k \in 1..MaxList : WaiterSend(k)
  \/ WhenAnyPoll
  \/ WhenAnyWake

SpecWait == Init /\ [][NextWait]_vars

\* the same with one abort error, and the runtime running every goroutine
\* that can run
NextWaitLive ==
  \/ (reg = {} /\ Background)
  \/ (Cardinality(reg) < MaxWaitNodes /\ WithIntent(1, 0, 0))
  \/ \E c \in Ids : WorkerFulfill(c)
  \/ \E c \in Ids : WorkerAbort(c, "e1")
  \/ CallerFire("Canceled")
  \/ \E ns \in NodeLists : StartWaitAll(ns)
  \/ WaitAllPoll
  \/ WaitAllWake
  \/ \E ns \in NodeLists : StartWhenAny(ns)
  \/ \E k \in 1..MaxList : WaiterRecv(k)
  \/ \E k \in 1..MaxList : WaiterSend(k)
  \/ WhenAnyPoll
  \/ WhenAnyWake

SpecWaitLive ==
  /\ Init /\ [][NextWaitLive]_vars
  /\ WF_vars(WaitAllPoll) /\ WF_vars(WaitAllWake)
  /\ WF_vars(WhenAnyPoll) /\ WF_vars(WhenAnyWake)
  /\ \A k \in 1..MaxList : WF_vars(WaiterRecv(k)) /\ WF_vars(WaiterSend(k))

\* ------------------------------------------------------- claims C11 .. C20
\* what the goroutines that completed the nodes did, read off the record of
\* terminal transitions: the nodes completed, and the error Abort was given
Completed == {order[i].node : i \in DOMAIN order}
AbortedWith(n) ==
  IF \E i \in DOMAIN order : order[i].node = n /\ order[i].how = "aborted"
  THEN (CHOOSE o \in {order[i] : i \in DOMAIN order} : o.node = n).reason
  ELSE "nil"
WaitReturns(op) == wcall.op = op /\ wcall.pc # "returned" /\ wcall'.pc = "returned"
WaitMoves == wcall'.pc # wcall.pc \/ wcall'.i # wcall.i

\* C11: while the caller's signal has not fired, WaitAll returns the error
\* given to Abort for the first node in list order that has a non-nil error
\* (every node listed before it has completed without one), it returns nil
\* only when every listed node has completed without an error, and no step
\* of WaitAll changes the lifecycle of a node.
C11_WaitAllListOrder ==
  [][/\ (WaitReturns("WaitAll") /\ callerCtx' = "open") =>
          LET ns == wcall.nodes
              failed == {k \in DOMAIN ns : AbortedWith(ns[k]) # "nil"}
          IN IF wcall'.err # "nil"
             THEN /\ failed # {}
                  /\ LET k0 == CHOOSE k \in failed : \A j \in failed : k <= j
                     IN /\ wcall'.err = AbortedWith(ns[k0])
                        /\ \A j \in 1..(k0 - 1) : ns[j] \in Completed
             ELSE failed = {} /\ \A k \in DOMAIN ns : ns[k] \in Completed
     /\ (wcall.op = "WaitAll" /\ WaitMoves) => UNCHANGED <<lifeVars, nodeVars, paramVars>>
    ]_vars

\* the second listed node was aborted first in time, the first one later with
\* another error, and WaitAll returned the error of the first listed node
C11_Witness ==
  /\ wcall.op = "WaitAll" /\ wcall.pc = "returned" /\ callerCtx = "open"
  /\ Len(wcall.nodes) = 2 /\ Len(order) = 2
  /\ order[1] = [node |-> wcall.nodes[2], how |-> "aborted", reason |-> "e2"]
  /\ order[2] = [node |-> wcall.nodes[1], how |-> "aborted", reason |-> "e1"]
  /\ wcall.err = "e1"

\* C12: while the caller's signal has not fired, WhenAny returns the listed
\* node that became terminal first, with that node's error, under every
\* scheduling of the goroutines it starts.
C12_WhenAnyFirst ==
  [][(WaitReturns("WhenAny") /\ callerCtx' = "open") =>
        LET listed == {wcall.nodes[k] : k \in DOMAIN wcall.nodes}
            done == {i \in DOMAIN order : order[i].node \in listed}
            first == order[CHOOSE i \in done : \A j \in done : i <= j].node
        IN done # {} /\ wcall'.node = first /\ wcall'.err = AbortedWith(first)
    ]_vars

Pending(op) == wcall.op = op /\ wcall.pc \in {"poll", "blocked"}
ReturnedWith(n, e) == wcall.pc = "returned" /\ wcall.node = n /\ wcall.err = e
Listed == {wcall.nodes[k] : k \in DOMAIN wcall.nodes}
WaitedActive == WaitedNode # 0 /\ state[WaitedNode] = "active"

\* the node WaitAll was waiting on when the caller's signal fired
FiredOn == IF wcall.op = "WaitAll" /\ wcall.firedAt # 0 THEN {wcall.nodes[wcall.firedAt]} ELSE Listed

CanLock(n) == mu[n].w = 0 /\ mu[n].r = {}
CanRLock(n) == mu[n].w = 0
Held(t) == {n \in Ids : mu[n].w = t \/ t \in mu[n].r}

\* the nodes a caller can hold: a node is handed out when its constructor returns
Creating == {lt[t].child : t \in Threads} \ {0}
PendingWraps == Cardinality({t \in Threads : lt[t].pc = "wrap"})
Usable == reg \ Creating

\* the nodes reached from the nodes of S through children lists
RECURSIVE LinkedFrom(_)
LinkedFrom(S) ==
  LET S2 == S \cup UNION {{children[n][i] : i \in DOMAIN children[n]} : n \in S}
  IN IF S2 = S THEN S ELSE LinkedFrom(S2)

LGoto(t, r) == lt' = [lt EXCEPT ![t] = r]
\* a thread whose call has returned keeps, for observation, the name of the
\* call and what a SendCancel saw when it began
Done(r) == [LIdle EXCEPT !.op = r.op, !.snap = r.snap]
LReturn(t) == lt' = [lt EXCEPT ![t] = Done(lt[t])]
LStart(op, pc, c) == [LIdle EXCEPT !.op = op, !.pc = pc, !.node = c]

LCallFulfill(t, c) ==
  /\ lt[t].pc = "idle" /\ c \in Usable
  /\ LGoto(t, LStart("Fulfill", "lock", c))
  /\ UNCHANGED <<nodeVars, lifeVars, paramVars, base, now, lastOp, thr, waitVars, mu>>

LCallAbort(t, c, e) ==
  /\ lt[t].pc = "idle" /\ c \in Usable
  /\ LGoto(t, [LStart("Abort", "lock", c) EXCEPT !.reason = e])
  /\ UNCHANGED <<nodeVars, lifeVars, paramVars, base, now, lastOp, thr, waitVars, mu>>

\* SendCancel: ScopeNode is Abort on c; the other scopes start abortRecursive
\* at c or at c.Root(), which reads parentID and the registry and takes no lock
LCallSendCancel(t, c, scope, e) ==
  /\ lt[t].pc = "idle" /\ c \in Usable
  /\ LET top == IF scope = "ScopeRoot" THEN Root(c) ELSE c
     IN LGoto(t, IF scope = "ScopeNode"
                 THEN [LStart("SendCancel", "lock", c) EXCEPT !.reason = e, !.snap = {c}]
                 ELSE [LStart("SendCancel", "rlockState", top) EXCEPT
                         !.reason = e, !.todo = <<top>>, !.snap = LinkedFrom({top})])
  /\ UNCHANGED <<nodeVars, lifeVars, paramVars, base, now, lastOp, thr, waitVars, mu>>

\* SendAdjust with the mutator func(p) { p["k"] = v; p["k2"] = v }
LCallSendAdjust(t, c, scope, v) ==
  /\ lt[t].pc = "idle" /\ c \in Usable
  /\ LET top == IF scope = "ScopeRoot" THEN Root(c) ELSE c
     IN LGoto(t, [LStart("SendAdjust", "lock", top) EXCEPT
                    !.val = v, !.todo = IF scope = "ScopeNode" THEN <<>> ELSE <<top>>])
  /\ UNCHANGED <<nodeVars, lifeVars, paramVars, base, now, lastOp, thr, waitVars, mu>>

LCallWithIntent(t, parent) ==
  /\ lt[t].pc = "idle" /\ parent \in Usable
  /\ newID + PendingWraps \in Ids
  /\ LGoto(t, LStart("WithIntent", "wrap", parent))
  /\ UNCHANGED <<nodeVars, lifeVars, paramVars, base, now, lastOp, thr, waitVars, mu>>

\* a reader: in := c.Intent(); in.Params["k"]; in.Params["k2"]
LCallIntent(t, c) ==
  /\ lt[t].pc = "idle" /\ c \in Usable
  /\ LGoto(t, LStart("Intent", "rlock", c))
  /\ UNCHANGED <<nodeVars, lifeVars, paramVars, base, now, lastOp, thr, waitVars, mu>>

\* c.mu.Lock()
LStepLock(t) ==
  /\ lt[t].pc = "lock"
  /\ CanLock(lt[t].node)
  /\ mu' = [mu EXCEPT ![lt[t].node].w = t]
  /\ LGoto(t, [lt[t] EXCEPT !.pc = "cs"])
  /\ UNCHANGED <<nodeVars, lifeVars, paramVars, base, now, lastOp, thr, waitVars>>

\* c.mu.RLock() of State(), Children() and Intent()
LStepRLock(t) ==
  /\ lt[t].pc \in {"rlockState", "rlockChildren", "rlock"}
  /\ CanRLock(lt[t].node)
  /\ mu' = [mu EXCEPT ![lt[t].node].r = @ \cup {t}]
  /\ LGoto(t, [lt[t] EXCEPT !.pc = CASE lt[t].pc = "rlockState" -> "csState"
                                     [] lt[t].pc = "rlockChildren" -> "csChildren"
                                     [] OTHER -> "csIntent"])
  /\ UNCHANGED <<nodeVars, lifeVars, paramVars, base, now, lastOp, thr, waitVars>>

Unlock(t) == mu' = [mu EXCEPT ![lt[t].node].w = 0]
RUnlock(t) == mu' = [mu EXCEPT ![lt[t].node].r = @ \ {t}]

\* where a call goes after its work on the node at the head of todo
AfterNode(r) == IF r.todo = <<>> THEN Done(r) ELSE [r EXCEPT !.pc = "rlockChildren"]

\* the critical section of Fulfill
LStepFulfill(t) ==
  /\ lt[t].pc = "cs" /\ lt[t].op = "Fulfill"
  /\ SetLife(FulfillOn(Life, lt[t].node))
  /\ Unlock(t)
  /\ LReturn(t)
  /\ UNCHANGED <<nodeVars, paramVars, base, now, lastOp, thr, waitVars>>

\* the critical section of Abort
LStepAbort(t) ==
  /\ lt[t].pc = "cs" /\ lt[t].op \in {"Abort", "SendCancel"}
  /\ SetLife(AbortOn(Life, lt[t].node, lt[t].reason))
  /\ Unlock(t)
  /\ LGoto(t, AfterNode(lt[t]))
  /\ UNCHANGED <<nodeVars, paramVars, base, now, lastOp, thr, waitVars>>

\* (mutant) a State() that returns with the read lock held
LStepStateHold(t) ==
  /\ lt[t].pc = "csState"
  /\ LGoto(t, [lt[t] EXCEPT !.pc = IF state[lt[t].node] = "active" THEN "lock" ELSE "rlockChildren"])
  /\ UNCHANGED <<nodeVars, lifeVars, paramVars, base, now, lastOp, thr, waitVars, mu>>

\* abortRecursive: c.State() == "active"
LStepState(t) ==
  /\ lt[t].pc = "csState"
  /\ RUnlock(t)
  /\ LGoto(t, [lt[t] EXCEPT !.pc = IF state[lt[t].node] = "active" THEN "lock" ELSE "rlockChildren"])
  /\ UNCHANGED <<nodeVars, lifeVars, paramVars, base, now, lastOp, thr, waitVars>>

\* (mutant) a traversal that does not go into the children
LStepChildrenSkip(t) ==
  /\ lt[t].pc = "csChildren"
  /\ RUnlock(t)
  /\ LET rest == Tail(lt[t].todo)
     IN LGoto(t, IF rest = <<>> THEN Done(lt[t])
                 ELSE [lt[t] EXCEPT !.pc = IF lt[t].op = "SendCancel" THEN "rlockState" ELSE "lock",
                                    !.node = Head(rest), !.todo = rest])
  /\ UNCHANGED <<nodeVars, lifeVars, paramVars, base, now, lastOp, thr, waitVars>>

\* c.Children(): the ids are copied under the read lock; the registry is
\* read for each of them afterwards, and it only grows
LStepChildren(t) ==
  /\ lt[t].pc = "csChildren"
  /\ RUnlock(t)
  /\ LET rest == Children(lt[t].node) \o Tail(lt[t].todo)
     IN LGoto(t, IF rest = <<>> THEN Done(lt[t])
                 ELSE [lt[t] EXCEPT !.pc = IF lt[t].op = "SendCancel" THEN "rlockState" ELSE "lock",
                                    !.node = Head(rest), !.todo = rest])
  /\ UNCHANGED <<nodeVars, lifeVars, paramVars, base, now, lastOp, thr, waitVars>>

\* applyAdjust: the nil-map test and the mutator's first write
LStepAdjust1(t) ==
  /\ lt[t].pc = "cs" /\ lt[t].op = "SendAdjust"
  /\ LET c == lt[t].node
         P == applyAdjust(Par, c, [key |-> "k", val |-> lt[t].val])
     IN params' = P.params /\ heap' = P.heap
  /\ LGoto(t, [lt[t] EXCEPT !.pc = "cs2"])
  /\ UNCHANGED <<nodeVars, lifeVars, base, now, lastOp, thr, waitVars, mu>>

\* the mutator's second write, and the unlock
LStepAdjust2(t) ==
  /\ lt[t].pc = "cs2"
  /\ heap' = [heap EXCEPT ![params[lt[t].node]] = ApplyFn([key |-> "k2", val |-> lt[t].val], @)]
  /\ Unlock(t)
  /\ LGoto(t, AfterNode(lt[t]))
  /\ UNCHANGED <<nodeVars, lifeVars, params, base, now, lastOp, thr, waitVars>>

\* WithIntent: clampChild, the derived context, wrap (which registers)
LStepWrap(t) ==
  /\ lt[t].pc = "wrap"
  /\ newID \in Ids
  /\ LET d == clampChild(cons[lt[t].node], 0)
     IN wrap(newID, deriveBase(lt[t].node, d), 0, d)
  /\ LGoto(t, [lt[t] EXCEPT !.pc = "setParent", !.child = newID])
  /\ UNCHANGED <<parentID, children, err, heap, now, lastOp, thr, waitVars, mu>>

\* (mutant) a WithIntent that leaves the child's parentID empty
LStepSetParentSkip(t) ==
  /\ lt[t].pc = "setParent"
  /\ LGoto(t, [lt[t] EXCEPT !.pc = "lock"])
  /\ UNCHANGED <<nodeVars, lifeVars, paramVars, base, now, lastOp, thr, waitVars, mu>>

\* child.parentID = parent.id
LStepSetParent(t) ==
  /\ lt[t].pc = "setParent"
  /\ parentID' = [parentID EXCEPT ![lt[t].child] = lt[t].node]
  /\ LGoto(t, [lt[t] EXCEPT !.pc = "lock"])
  /\ UNCHANGED <<reg, children, cons, lifeVars, paramVars, base, now, lastOp, thr, waitVars, mu>>

\* (mutant) an append that drops what other calls appended
LStepAppendAlone(t) ==
  /\ lt[t].pc = "cs" /\ lt[t].op = "WithIntent"
  /\ children' = [children EXCEPT ![lt[t].node] = <<lt[t].child>>]
  /\ Unlock(t)
  /\ LReturn(t)
  /\ UNCHANGED <<reg, parentID, cons, lifeVars, paramVars, base, now, lastOp, thr, waitVars>>

\* parent.children = append(parent.children, child.id), and the return
LStepAppend(t) ==
  /\ lt[t].pc = "cs" /\ lt[t].op = "WithIntent"
  /\ children' = [children EXCEPT ![lt[t].node] = Append(@, lt[t].child)]
  /\ Unlock(t)
  /\ LReturn(t)
  /\ UNCHANGED <<reg, parentID, cons, lifeVars, paramVars, base, now, lastOp, thr, waitVars>>

\* Intent(): the struct, with the reference to the Params map in it
LStepIntent(t) ==
  /\ lt[t].pc = "csIntent"
  /\ RUnlock(t)
  /\ LGoto(t, [lt[t] EXCEPT !.pc = "read", !.ref = params[lt[t].node]])
  /\ UNCHANGED <<nodeVars, lifeVars, paramVars, base, now, lastOp, thr, waitVars>>

\* a goroutine is inside fn(c.intent.Params) on the map at address m
Writing(m) ==
  \E u \in Threads : lt[u].op = "SendAdjust" /\ lt[u].pc \in {"cs", "cs2"} /\ params[lt[u].node] = m

\* what a read of map m at key can give: the value stored; next to a write of
\* the same map by another goroutine the runtime may instead stop the
\* program ("fatal error: concurrent map read and map write")
ReadOutcomes(m, key) ==
  IF m = 0 THEN {Absent}
  ELSE {heap[m][key]} \cup {o \in {"fatal"} : Writing(m)}

\* in.Params[key], for the keys one after the other
LStepRead(t) ==
  /\ lt[t].pc = "read"
  /\ LET key == IF lt[t].got["k"] = "?" THEN "k" ELSE "k2"
     IN \E v \in ReadOutcomes(lt[t].ref, key) :
          LGoto(t, IF key = "k2" \/ v = "fatal"
                   THEN [Done(lt[t]) EXCEPT !.got = [lt[t].got EXCEPT ![key] = v]]
                   ELSE [lt[t] EXCEPT !.got[key] = v])
  /\ UNCHANGED <<nodeVars, lifeVars, paramVars, base, now, lastOp, thr, waitVars, mu>>

\* readers of Intent().Params next to SendAdjust calls
NextRead ==
  \/ (reg = {} /\ Background)
  \/ (Cardinality(reg) < MaxConcNodes /\ \E p \in Ids : WithIntent(p, 0, 0))
  \/ \E t \in Threads, c \in Ids, s \in {"ScopeNode", "ScopeSubtree"}, v \in Vals : LCallSendAdjust(t, c, s, v)
  \/ \E t \in Threads, c \in Ids : LCallIntent(t, c)
  \/ \E t \in Threads : LStepLock(t)
  \/ \E t \in Threads : LStepRLock(t)
  \/ \E t \in Threads : LStepAdjust1(t)
  \/ \E t \in Threads : LStepAdjust2(t)
  \/ \E t \in Threads : LStepChildren(t)
  \/ \E t \in Threads : LStepIntent(t)
  \/ \E t \in Threads : LStepRead(t)

SpecRead == Init /\ [][NextRead]_vars

\* WithIntent on every thread, with SendCancel(ScopeSubtree) calls from the first
NextDerive ==
  \/ (reg = {} /\ Background)
  \/ \E t \in Threads, p \in Ids : (Cardinality(reg) + PendingWraps < MaxDeriveNodes /\ LCallWithIntent(t, p))
  \/ \E c \in Ids : LCallSendCancel(1, c, "ScopeSubtree", "e1")
  \/ \E t \in Threads : LStepLock(t)
  \/ \E t \in Threads : LStepRLock(t)
  \/ \E t \in Threads : LStepAbort(t)
  \/ \E t \in Threads : LStepState(t)
  \/ \E t \in Threads : LStepChildren(t)
  \/ \E t \in Threads : LStepWrap(t)
  \/ \E t \in Threads : LStepSetParent(t)
  \/ \E t \in Threads : LStepAppend(t)

SpecDerive == Init /\ [][NextDerive]_vars

\* C14: every id in a children list is registered and names a node whose
\* parentID is the owner of the list, also while WithIntent calls are under
\* way; so Children() returns one node per listed id; and the registry never
\* loses a node.
C14_Linked ==
  \A n \in reg :
    /\ \A i \in DOMAIN children[n] : children[n][i] \in reg /\ parentID[children[n][i]] = n
    /\ Children(n) = children[n]
C14_ChildrenResolve == [](C14_Linked) /\ [][reg \subseteq reg']_vars

\* a WithIntent call has registered its child and not yet linked it, while
\* its parent already lists another child
C14_Witness ==
  \E t \in Threads :
    /\ lt[t].pc \in {"setParent", "lock"} /\ lt[t].op = "WithIntent"
    /\ lt[t].child \in reg
    /\ Len(children[lt[t].node]) = 1

\* C18: a children list only grows, by one id appended at its end, and the
\* id appended is registered already; a child whose WithIntent call has
\* returned is in its parent's list exactly once, and no id is listed twice.
Places(n, c) == {i \in DOMAIN children[n] : children[n][i] = c}
C18_Listed ==
  /\ \A c \in Usable : parentID[c] # 0 => Cardinality(Places(parentID[c], c)) = 1
  /\ \A n \in reg, c \in reg : Cardinality(Places(n, c)) <= 1
C18_NoLostChild ==
  /\ [](C18_Listed)
  /\ [][\A n \in Ids :
          \/ children'[n] = children[n]
          \/ \E c \in reg : children'[n] = Append(children[n], c)]_vars

\* two WithIntent calls on one parent at once: one holds the parent's lock
\* and is about to append, the other waits for the lock
C18_Witness ==
  \E t \in Threads, u \in Threads :
    /\ t # u /\ lt[t].op = "WithIntent" /\ lt[u].op = "WithIntent"
    /\ lt[t].node = lt[u].node
    /\ lt[t].pc = "cs" /\ lt[u].pc = "lock"

\* C19: when SendCancel(ScopeSubtree) has returned, every node that was
\* linked below its start node (through children lists) when the call began
\* is terminal, whatever WithIntent calls ran meanwhile.
C19_CancelCoversLinked ==
  \A t \in Threads :
    (lt[t].op = "SendCancel" /\ lt[t].pc = "idle") => \A n \in lt[t].snap : state[n] # "active"

\* the call has returned, it began with a child linked, and a node linked
\* below the start node since is active
C19_Witness ==
  \E t \in Threads :
    /\ lt[t].op = "SendCancel" /\ lt[t].pc = "idle"
    /\ \E a \in lt[t].snap :
         /\ lt[t].snap = LinkedFrom({a}) \cap lt[t].snap
         /\ Cardinality(lt[t].snap) >= 2
         /\ \E n \in LinkedFrom({a}) \ lt[t].snap : state[n] = "active"

\* C15: Parent() of the node a WithIntent call returned is the parent that
\* was passed; Root() of a node is the one node among it and its ancestors
\* that has no parent, and it is the Root() of its parent too; a root has no
\* Parent() and is its own Root().
C15_Roots ==
  \A n \in reg :
    /\ parentID[n] = 0 => (Parent(n) = 0 /\ Root(n) = n)
    /\ parentID[n] # 0 => (Parent(n) \in reg /\ Root(n) = Root(Parent(n)))
    /\ Root(n) \in {n} \cup Ancestors(n)
    /\ {a \in {n} \cup Ancestors(n) : parentID[a] = 0} = {Root(n)}
C15_Lineage ==
  /\ [](C15_Roots)
  /\ [][(lastOp'.op = "WithIntent" /\ reg' # reg) =>
          \A n \in reg' \ reg : Parent(n)' = lastOp'.node]_vars

\* a node derived from a derived node: its Root() is two steps up
C15_Witness ==
  /\ lastOp.op = "WithIntent"
  /\ \E n \in reg :
       /\ parentID[n] = lastOp.node
       /\ children[n] = <<>>
       /\ parentID[lastOp.node] # 0
       /\ Root(n) = parentID[lastOp.node]

\* C16: ErrState() of a node is non-nil exactly when its state is "aborted",
\* whatever reason Abort or SendCancel was given.
C16_ErrIffAborted ==
  \A n \in reg : (err[n] # "nil") <=> (state[n] = "aborted")

\* C17: a thread that takes the params through Intent() and reads the two
\* keys while SendAdjust calls run on the node never reads the map next to a
\* write of it, and never finds one key of a mutator written and the other
\* not (every mutator here writes one value to both keys).
C17_SnapshotReads ==
  \A t \in Threads :
    /\ \A key \in Keys : lt[t].got[key] # "fatal"
    /\ lt[t].got["k2"] \notin {"?", "fatal"} => lt[t].got["k"] = lt[t].got["k2"]

\* ------------------------------------------- every call, on shared nodes
\* A chain of nodes is built first; then every thread makes one call, of any
\* kind and on any node, and the calls run together.
Fresh(t) == lt[t].op = "-"
LStep(t) ==
  \/ LStepLock(t) \/ LStepRLock(t)
  \/ LStepFulfill(t) \/ LStepAbort(t) \/ LStepState(t) \/ LStepChildren(t)
  \/ LStepAdjust1(t) \/ LStepAdjust2(t)
  \/ LStepWrap(t) \/ LStepSetParent(t) \/ LStepAppend(t)

NextLock ==
  \/ (reg = {} /\ Background)
  \/ (Cardinality(reg) < MaxConcNodes /\ (\A t \in Threads : Fresh(t)) /\ WithIntent(Cardinality(reg), 0, 0))
  \/ \E t \in Threads, p \in Ids :
       (Fresh(t) /\ Cardinality(reg) + PendingWraps < MaxConcNodes /\ LCallWithIntent(t, p))
  \/ \E t \in Threads, c \in Ids : (Fresh(t) /\ LCallFulfill(t, c))
  \/ \E t \in Threads, c \in Ids : (Fresh(t) /\ LCallAbort(t, c, "e1"))
  \/ \E t \in Threads, c \in Ids : (Fresh(t) /\ LCallSendCancel(t, c, "ScopeSubtree", "e1"))
  \/ \E t \in Threads, c \in Ids : (Fresh(t) /\ LCallSendAdjust(t, c, "ScopeNode", "v1"))
  \/ \E t \in Threads : LStepLock(t)
  \/ \E t \in Threads : LStepRLock(t)
  \/ \E t \in Threads : LStepFulfill(t)
  \/ \E t \in Threads : LStepAbort(t)
  \/ \E t \in Threads : LStepState(t)
  \/ \E t \in Threads : LStepChildren(t)
  \/ \E t \in Threads : LStepAdjust1(t)
  \/ \E t \in Threads : LStepAdjust2(t)
  \/ \E t \in Threads : LStepWrap(t)
  \/ \E t \in Threads : LStepSetParent(t)
  \/ \E t \in Threads : LStepAppend(t)

\* the runtime runs every goroutine that can run, and a goroutine waiting
\* for a lock that is free gets it
SpecLockLive == Init /\ [][NextLock]_vars /\ \A t \in Threads : WF_vars(LStep(t))

\* C20: a thread holds at most one Ctx.mu, and only inside a critical
\* section of the node it is working on (never while it waits for a lock,
\* reads the registry or moves on to another node); whenever calls are under
\* way one of them can take a step; and every call returns.
Blocked(t) ==
  \/ lt[t].pc = "lock" /\ ~CanLock(lt[t].node)
  \/ lt[t].pc \in {"rlockState", "rlockChildren", "rlock"} /\ ~CanRLock(lt[t].node)
C20_OneLock ==
  \A t \in Threads :
    /\ Cardinality(Held(t)) <= 1
    /\ Held(t) # {} => (lt[t].pc \in {"cs", "cs2", "csState", "csChildren", "csIntent"} /\ Held(t) = {lt[t].node})
C20_CanStep ==
  (\E t \in Threads : lt[t].pc # "idle") => \E t \in Threads : lt[t].pc # "idle" /\ ~Blocked(t)
NextLww ==
  \/ (reg = {} /\ Background)
  \/ (Cardinality(reg) < MaxConcNodes /\ (\A t \in Threads : Fresh(t)) /\ \E p \in Ids : WithIntent(p, 0, 0))
  \/ \E t \in Threads, v \in Vals : (Fresh(t) /\ LCallSendAdjust(t, 1, "ScopeSubtree", v))
  \/ \E t \in Threads : LStepLock(t)
  \/ \E t \in Threads : LStepRLock(t)
  \/ \E t \in Threads : LStepChildren(t)
  \/ \E t \in Threads : LStepAdjust1(t)
  \/ \E t \in Threads : LStepAdjust2(t)

SpecLww == Init /\ [][NextLww]_vars

\* every thread has made its SendAdjust call and the call has returned
AllAdjusted == \A t \in Threads : lt[t].op = "SendAdjust" /\ lt[t].pc = "idle"
\* the value of key "k" on a node changes only by the write of the call that
\* holds the node's lock, so the call that took the lock last wrote it last
C21_ByHolder ==
  \A n \in reg :
    ParamsOf(n)'["k"] # ParamsOf(n)["k"] =>
      /\ mu[n].w # 0
      /\ lt[mu[n].w].op = "SendAdjust"
      /\ ParamsOf(n)'["k"] = lt[mu[n].w].val
C21_OneCall ==
  AllAdjusted => \E v \in Vals : \A n \in LinkedFrom({1}) : ParamsOf(n)["k"] = v

\* C21: when concurrent SendAdjust(ScopeSubtree) calls on one node that set
\* the same key have all returned, every node of the subtree holds the value
\* written by the call that took that node's lock last, and all nodes of the
\* subtree hold the value of one and the same call.
C21_LastWriterWins == [](C21_OneCall) /\ [][C21_ByHolder]_vars

\* ------------------------------------ explicit cancel and the embedded context
\* Abort and scoped cancel next to the release handles, one call at a time
NextAgree ==
  \/ Cardinality(reg) < MaxTreeNodes /\ Background
  \/ Cardinality(reg) < MaxTreeNodes /\ \E p \in Ids : WithIntent(p, 0, 0)
  \/ \E c \in Ids : Abort(c, "e1")
  \/ \E c \in Ids, s \in Scopes : SendCancel(c, s, "e2")
  \/ \E c \in Ids : Release(c)

SpecAgree == Init /\ [][NextAgree]_vars

\* C22: whenever a node is "aborted" (here only Abort and SendCancel abort
\* nodes), the context.Context it embeds has fired, and so have the embedded
\* contexts of all its descendants.
C22_SignalsAgree ==
  \A n \in reg : state[n] = "aborted" => \A k \in SubtreeOf(n) : base[k] # "open"

\* --------------------------------------------- derivation under a terminal node
\* WithIntent can be called on every registered node, whatever its state
C23_Succeeds ==
  \A p \in reg : newID \in Ids => ENABLED WithIntent(p, 0, 0)
\* the child WithIntent returns is registered, linked under the parent, active,
\* with an open DoneChan and a nil error
C23_ChildActive ==
  lastOp'.op = "WithIntent" =>
    LET p == lastOp'.node
        k == newID
    IN /\ k \in reg' /\ k \notin reg
       /\ parentID'[k] = p /\ children'[p] = Append(children[p], k)
       /\ state'[k] = "active" /\ doneCh'[k] = "open" /\ err'[k] = "nil"
\* an active node leaves "active" only by Fulfill or Abort on it or by a
\* scoped cancel that reaches it
C23_StaysActive ==
  \A n \in reg :
    (state[n] = "active" /\ state'[n] # "active") =>
      \/ lastOp'.op \in {"Fulfill", "Abort"} /\ lastOp'.node = n
      \/ lastOp'.op = "SendCancel" /\ n \in InScope(lastOp'.node, lastOp'.scope)

\* C23: WithIntent on a parent that is "done" or "aborted" succeeds like on an
\* active one: it registers and links the child and returns it "active" with
\* an open DoneChan and a nil error, and the child stays active until Fulfill,
\* Abort or a scoped cancel reaches it.
C23_DeriveIgnoresState ==
  [](C23_Succeeds) /\ [][C23_ChildActive /\ C23_StaysActive]_vars

\* WithIntent has returned a child of an aborted parent: an active node with an
\* open DoneChan below an aborted one
C23_Witness ==
  /\ lastOp.op = "WithIntent"
  /\ state[lastOp.node] = "aborted" /\ doneCh[lastOp.node] = "closed"
  /\ LET k == Cardinality(reg)
     IN /\ parentID[k] = lastOp.node /\ lastOp.node \in Ancestors(k)
        /\ state[k] = "active" /\ doneCh[k] = "open" /\ err[k] = "nil"
====
